---- MODULE Spec2Model ----
(***************************************************************************)
(* Model of js-eventstream's ConnectEventStream (the connection handler,   *)
(* the process-local 'addressedEvent' bus and the direct-mode pipeline)    *)
(* and of ChannelWritable (the publish sink).                              *)
(*                                                                         *)
(* JavaScript runs each synchronous segment of a handler to completion, so *)
(* one action is one synchronous segment: run() up to its only await       *)
(* (connectGrip.run), run() after it, _write() up to its await and after.  *)
(***************************************************************************)
EXTENDS Integers, Sequences, FiniteSets, TLC

\* ------------------------------------------------------------------ bounds
MaxRequests == 2      \* run() calls made during one behaviour
MaxPublish == 2       \* publishEvent calls made by producers
MaxWrites == 3        \* write() calls made on the publish sinks

\* ------------------------------------------------------------ JS values
Undefined == "<undefined>"
Null == "<null>"
JsTrue == "<true>"
JsFalse == "<false>"

\* String(x) for the values the model passes to string concatenation and to
\* new Error(x): a string is itself, true is "true", null is "null".
JsToString(x) ==
    CASE x = JsTrue -> "true"
      [] x = JsFalse -> "false"
      [] x = Null -> "null"
      [] x = Undefined -> "undefined"
      [] OTHER -> x

Channels == {"a", "b"}

RECURSIVE Includes(_, _)
Includes(s, x) == IF s = <<>> THEN FALSE
                  ELSE IF Head(s) = x THEN TRUE ELSE Includes(Tail(s), x)

Range(s) == {s[i] : i \in 1..Len(s)}

\* ------------------------------------------------------------ frame codec
\* An event record; data is the payload as its list of lines (the text
\* split at line breaks).
Events == { [event |-> "x", data |-> <<"y">>],
            [event |-> "m", data |-> <<"l1", "l2">>] }

StreamOpenEvent == [event |-> "stream-open", data |-> <<"">>]
KeepAliveEvent == [event |-> "keep-alive", data |-> <<"">>]

Line(f, v) == [field |-> f, value |-> v]
BlankLine == [field |-> "", value |-> ""]

\* encodeEvent: the event field, one data line per payload line, and the
\* blank line that ends the frame.
encodeEvent(e) ==
    <<Line("event", e.event)>>
      \o [i \in 1..Len(e.data) |-> Line("data", e.data[i])]
      \o <<BlankLine>>

RECURSIVE joinEncodedEvents(_)
joinEncodedEvents(frames) ==
    IF frames = <<>> THEN <<>>
    ELSE Head(frames) \o joinEncodedEvents(Tail(frames))

KEEP_ALIVE_TIMEOUT == "KEEP_ALIVE_TIMEOUT"

\* ------------------------------------------------------------- variables
VARIABLES
    options,        \* the IHandlerOptions the handler was configured with
    connectGrip,    \* TRUE when the constructor built this.connectGrip
    awaiting,       \* run() calls suspended at `await this.connectGrip.run`,
                    \* each as [via, fnCalls], in the order they suspended
    started,        \* run() calls made so far
    cur,            \* the request whose synchronous segment just ended
    conns,          \* accepted requests: their responses and subscriptions
    listeners,      \* the bus's 'addressedEvent' listeners, in attach order
    published,      \* the 'addressedEvent' emissions made so far
    emitting,       \* the emit() calls under way, the innermost last
    emitted,        \* the emit() calls that returned, as they were at return
    channelWritables, \* this._channelWritables: channel -> sink id, 0 if unset
    sinks,          \* the ChannelWritable instances
    writes          \* write() calls made so far

vars == <<options, connectGrip, awaiting, started, cur, conns, listeners,
          published, emitting, emitted, channelWritables, sinks, writes>>

handlerVars == <<options, connectGrip, awaiting, started, cur, conns>>
busVars == <<listeners, published>>
emitVars == <<emitting, emitted>>
sinkVars == <<channelWritables, sinks, writes>>

\* ------------------------------------------------------- request inputs
\* req.grip: set is FALSE while ConnectGrip has not run for the request.
GripFlags == [set : {TRUE}, isProxied : BOOLEAN, needsSigned : BOOLEAN,
              isSigned : BOOLEAN]
NoGrip == [set |-> FALSE, isProxied |-> FALSE, needsSigned |-> FALSE,
           isSigned |-> FALSE]

\* flattenHttpHeaders(req.headers['last-event-id'])
LastEventIds == {Undefined, "error", "7"}

\* searchParams.getAll(name) for the two parameter names handlers read
Queries == [channel : {<<>>, <<"a">>, <<"b", "a", "b">>},
            ch : {<<>>, <<"b">>}]

\* IHandlerOptions as parseParams returns them; defined is FALSE for a
\* handler called with default values (eventStreamOptions undefined).
Opt(d, c, q) == [defined |-> d, channels |-> c, channelsFromQuery |-> q]
OptionSet == { Opt(FALSE, <<>>, Undefined),
               Opt(TRUE, <<>>, Undefined),
               Opt(TRUE, <<"a">>, Undefined),
               Opt(TRUE, <<"a", "a">>, JsFalse),
               Opt(TRUE, <<"a">>, JsTrue),
               Opt(TRUE, <<>>, JsTrue),
               Opt(TRUE, <<>>, "ch"),
               Opt(TRUE, <<"a">>, "ch") }

NoHold == [set |-> FALSE, holdStream |-> FALSE, channels |-> <<>>,
           keepAlive |-> <<>>, timeout |-> ""]

\* A request with its response, before run() touched it. A ServerResponse
\* starts with statusCode 200; an IncomingMessage of a server has none (0).
Request(accept, grip, lastEventId, query) ==
    [pc |-> "done", accept |-> accept, grip |-> grip,
     lastEventId |-> lastEventId, query |-> query,
     resStatusCode |-> 200, reqStatusCode |-> 0,
     ended |-> 0, endText |-> <<>>, wire |-> <<>>, headers |-> {},
     log |-> <<>>, detectRuns |-> 0,
     resolved |-> FALSE, channels |-> <<>>,
     hold |-> NoHold, subscribed |-> FALSE,
     outcome |-> "resolved", error |-> "",
     eventStream |-> Opt(FALSE, <<>>, Undefined),
     via |-> "run", fnCalls |-> <<>>]

IdleReq == [Request(FALSE, NoGrip, Undefined,
                    [channel |-> <<>>, ch |-> <<>>]) EXCEPT !.pc = "idle"]

\* ------------------------------------------------------ response helpers
SetStatus(r, code) ==
    [r EXCEPT !.resStatusCode = code, !.log = Append(@, "statusCode")]

ResEnd(r, text) ==
    [r EXCEPT !.ended = @ + 1, !.endText = text, !.log = Append(@, "end")]

ResWrite(r, chunk) ==
    [r EXCEPT !.wire = Append(@, chunk), !.log = Append(@, "write")]

SetHeader(r, name, value) ==
    [r EXCEPT !.headers = @ \cup {<<name, value>>},
              !.log = Append(@, "setHeader")]

\* ----------------------------------------------- ConnectEventStream.run
\* Mutant of Accepts: the negotiation accepts every request.
AcceptsAnything(r) == TRUE

\* accepts(req).types('text/event-stream') is truthy
Accepts(r) == r.accept

\* grip.isProxied && grip.needsSigned && !grip.isSigned
SignatureMissing(r) ==
    r.grip.isProxied /\ r.grip.needsSigned /\ ~r.grip.isSigned

\* eventStreamOptions?.channelsFromQuery ?? false
ReadChannelsFromQuery(o) ==
    IF ~o.defined \/ o.channelsFromQuery = Undefined THEN JsFalse
    ELSE o.channelsFromQuery

\* typeof readChannelsFromQuery === 'string' ? readChannelsFromQuery : 'channel'
ChannelParamName(o) ==
    IF ReadChannelsFromQuery(o) \in {JsFalse, JsTrue} THEN "channel"
    ELSE ReadChannelsFromQuery(o)

\* for (const value of queryParams) if (!channels.includes(value)) push
RECURSIVE PushMissing(_, _)
PushMissing(channels, values) ==
    IF values = <<>> THEN channels
    ELSE PushMissing(IF Includes(channels, Head(values)) THEN channels
                     ELSE Append(channels, Head(values)),
                     Tail(values))

\* The channels of a request: a copy of the configured ones, then the query's.
ResolveChannels(o, query) ==
    LET channels == IF o.defined THEN o.channels ELSE <<>>
    IN IF channels = <<>> \/ ReadChannelsFromQuery(o) # JsFalse
       THEN PushMissing(channels, query[ChannelParamName(o)])
       ELSE channels

\* The text of the 400 answer to a request without channels, as its parts.
NoChannelsMessage(o) ==
    IF ReadChannelsFromQuery(o) # JsFalse
    THEN <<"No specified channels.",
           " Specify the channels to read from using the ?",
           JsToString(ReadChannelsFromQuery(o)),
           " query parameter.", "\n">>
    ELSE <<"No specified channels.", "\n">>

\* new AddressedEventsReadable(addressedEvents, channels).pipe(serializer).pipe(res)
RunPipe(r) ==
    [r EXCEPT !.subscribed = TRUE, !.log = Append(@, "pipe")]

\* res.grip.startInstruct() and the three calls on the instruct
GripInstruct(r) ==
    [r EXCEPT !.hold = [set |-> TRUE, holdStream |-> TRUE,
                        channels |-> r.channels,
                        keepAlive |-> encodeEvent(KeepAliveEvent),
                        timeout |-> KEEP_ALIVE_TIMEOUT],
              !.log = @ \o <<"startInstruct", "setHoldStream", "addChannel",
                             "setKeepAlive">>]

ChunkedHeaders(r) ==
    SetHeader(SetHeader(r, "Connection", "Transfer-Encoding"),
              "Transfer-Encoding", "chunked")

\* Mutant of RunHandshake: the frame is written in direct mode only.
RunHandshakeHoldSilent(r) ==
    LET r1 == SetStatus(r, 200)
        events == <<encodeEvent(StreamOpenEvent)>>
        r2 == IF r.grip.isProxied THEN GripInstruct(r1) ELSE ChunkedHeaders(r1)
    IN IF r.grip.isProxied THEN ResEnd(r2, <<>>)
       ELSE RunPipe(ResWrite(r2, joinEncodedEvents(events)))

\* Mutant of RunHandshake: the frame is written before the mode branch.
RunHandshakeWriteFirst(r) ==
    LET r1 == SetStatus(r, 200)
        events == <<encodeEvent(StreamOpenEvent)>>
        r2 == ResWrite(r1, joinEncodedEvents(events))
        r3 == IF r.grip.isProxied THEN GripInstruct(r2) ELSE ChunkedHeaders(r2)
    IN IF r.grip.isProxied THEN ResEnd(r3, <<>>) ELSE RunPipe(r3)

\* Mutant of RunHandshake: the proxy branch does not return after res.end().
RunHandshakeNoReturn(r) ==
    LET r1 == SetStatus(r, 200)
        events == <<encodeEvent(StreamOpenEvent)>>
        r2 == IF r.grip.isProxied THEN GripInstruct(r1) ELSE ChunkedHeaders(r1)
        r3 == ResWrite(r2, joinEncodedEvents(events))
    IN IF r.grip.isProxied THEN RunPipe(ResEnd(r3, <<>>)) ELSE RunPipe(r3)

RunHandshake(r) ==
    LET r1 == SetStatus(r, 200)
        events == <<encodeEvent(StreamOpenEvent)>>
        r2 == IF r.grip.isProxied THEN GripInstruct(r1) ELSE ChunkedHeaders(r1)
        r3 == ResWrite(r2, joinEncodedEvents(events))
    IN IF r.grip.isProxied THEN ResEnd(r3, <<>>) ELSE RunPipe(r3)

\* Mutant of OptionsAfterPush: the loop pushes to the configured array itself
\* (channels = eventStreamOptions.channels, without slice()).
OptionsAfterPushShared(o, query) ==
    IF o.defined THEN [o EXCEPT !.channels = ResolveChannels(o, query)] ELSE o

\* The options object once the channels are resolved: channels is
\* eventStreamOptions.channels.slice(), a new array, and the loop pushes to
\* that copy, so the configured array keeps its items.
OptionsAfterPush(o, query) == o

RunResolve(r, o) ==
    LET channels == ResolveChannels(o, r.query)
        r1 == [r EXCEPT !.resolved = TRUE, !.channels = channels,
                        !.eventStream = OptionsAfterPush(o, r.query)]
    IN IF channels = <<>>
       THEN ResEnd(SetStatus(r1, 400), NoChannelsMessage(o))
       ELSE RunHandshake(r1)

\* Mutant of RunLastEventId: the resume header is not looked at.
RunLastEventIdUnchecked(r, o) == RunResolve(r, o)

RunLastEventId(r, o) ==
    IF r.lastEventId = "error"
    THEN ResEnd(SetStatus(r, 400),
                <<"last-event-id header may not be 'error'.", "\n">>)
    ELSE RunResolve(r, o)

\* req.statusCode = 403; res.end('GRIP Signature Invalid.\n'); return
RejectSignature(r) ==
    ResEnd([r EXCEPT !.reqStatusCode = 403, !.log = Append(@, "req.statusCode")],
           <<"GRIP Signature Invalid.", "\n">>)

\* run() from `const grip = req.grip` to its end
RunAfterGrip(r, o) ==
    IF SignatureMissing(r) THEN RejectSignature(r) ELSE RunLastEventId(r, o)

\* run() up to `await this.connectGrip.run(req, res)`; pc is "await" when the
\* call suspends there. Without a connectGrip the call throws a TypeError,
\* which rejects run's promise.
RunFirst(r, o, cg) ==
    IF ~Accepts(r)
    THEN ResEnd(SetStatus(r, 406), <<"Not Acceptable.", "\n">>)
    ELSE IF r.grip.set THEN RunAfterGrip(r, o)
    ELSE IF cg
         THEN [r EXCEPT !.pc = "await", !.detectRuns = @ + 1,
                        !.log = Append(@, "connectGrip.run")]
         ELSE [r EXCEPT !.outcome = "rejected", !.error = "TypeError"]

\* ------------------------------------------------------------ connections
\* What stays of an accepted request: its response and, in direct mode,
\* its AddressedEventsReadable (received: the events its listener pushed;
\* sent: how many of them the pipeline has written to the response).
Conn(r) ==
    [channels |-> r.channels, held |-> r.hold.set, subscribed |-> r.subscribed,
     wire |-> r.wire, ended |-> r.ended > 0, open |-> TRUE,
     received |-> <<>>, sent |-> 0]

Accepted(r) == r.wire # <<>>

DebugListener == 0

\* The effects of a finished segment on the connection table and on the bus.
Commit(r) ==
    /\ cur' = r
    /\ options' = r.eventStream
    /\ conns' = IF Accepted(r) \/ r.subscribed THEN Append(conns, Conn(r))
                ELSE conns
    /\ listeners' = IF r.subscribed THEN Append(listeners, Len(conns) + 1)
                    ELSE listeners

\* ------------------------------------------------------- the publish sink
\* JavaScript values a rejected or throwing publishEvent may carry.
\* text is the value's conversion to a string.
JsValue(kind, text) == [kind |-> kind, text |-> text]
NoValue == JsValue("undefined", "")
ThrownValues == { JsValue("Error", "delivery failed"),
                  JsValue("string", "proxy down"),
                  JsValue("object", "[object Object]"),
                  JsValue("null", ""),
                  NoValue }
TypeError == JsValue("Error", "publishEvent is not a function")

\* Mutant of ToError: the caught value is kept as it is (err = ex).
ToErrorUnwrapped(ex) == ex

\* ex instanceof Error ? ex : new Error(ex)
ToError(ex) ==
    IF ex.kind = "Error" THEN ex
    ELSE JsValue("Error", CASE ex.kind = "undefined" -> ""
                            [] ex.kind = "null" -> "null"
                            [] OTHER -> ex.text)

\* The argument _write hands to callback: callback(err) when err != null,
\* callback() otherwise.
CallbackArg(err) ==
    IF err.kind \notin {"null", "undefined"} THEN err ELSE NoValue

\* One call of _write: the event, how its publishEvent call stands (pending,
\* resolved, rejected, threw) with the value thrown, and the arguments of
\* each call of its callback.
WriteCall(event) ==
    [event |-> event, pub |-> "pending", cause |-> NoValue, cbs |-> <<>>]

\* new ChannelWritable(channelPublisher): a Writable in object mode. The
\* second argument getChannelWritable passes is not a parameter of the
\* constructor.
ChannelWritable(channelPublisher) ==
    [channelPublisher |-> channelPublisher, errored |-> FALSE,
     accepted |-> <<>>, buffer |-> <<>>, wr |-> <<>>]

Writing(sink) ==
    sink.wr # <<>> /\ sink.wr[Len(sink.wr)].cbs = <<>>

\* _write after its try block: the callback is called once, with the error
\* or with nothing.
WriteFinish(w, err) ==
    [w EXCEPT !.cbs = Append(@, CallbackArg(err))]

\* Mutant of WriteBegin: publishEvent is not awaited, the callback is called
\* right after the call.
WriteBeginNoAwait(sink, event) ==
    [sink EXCEPT !.wr = Append(@, WriteFinish(WriteCall(event), NoValue))]

\* _write up to its await. A ConnectEventStream has no publishEvent method:
\* calling it throws a TypeError inside the try block.
WriteBegin(sink, event) ==
    IF sink.channelPublisher = "ConnectEventStream"
    THEN [sink EXCEPT !.wr = Append(@,
            WriteFinish([WriteCall(event) EXCEPT !.pub = "threw",
                                                 !.cause = TypeError],
                        ToError(TypeError)))]
    ELSE [sink EXCEPT !.wr = Append(@, WriteCall(event))]

\* _write after its await: err is the value caught, wrapped into an Error.
WriteAfterAwait(w) ==
    IF w.pub = "resolved" THEN WriteFinish(w, NoValue)
    ELSE WriteFinish(w, ToError(w.cause))

\* Writable's answer to the callback: an error destroys the stream and
\* drops what it buffered; otherwise the next buffered record is written.
AfterCallback(sink) ==
    LET w == sink.wr[Len(sink.wr)]
    IN IF w.cbs # <<>> /\ w.cbs[Len(w.cbs)].kind = "Error"
       THEN [sink EXCEPT !.errored = TRUE, !.buffer = <<>>]
       ELSE IF w.cbs # <<>> /\ sink.buffer # <<>>
            THEN WriteBegin([sink EXCEPT !.buffer = Tail(@)], Head(sink.buffer))
            ELSE sink

\* Mutant of WritableWrite: _write is called although one is under way.
WritableWriteUnserialized(sink, event) ==
    IF sink.errored THEN sink
    ELSE AfterCallback(WriteBegin([sink EXCEPT !.accepted = Append(@, event)],
                                  event))

\* Writable.write(event): refused by a destroyed stream, buffered while a
\* _write is under way, handed to _write otherwise.
WritableWrite(sink, event) ==
    IF sink.errored THEN sink
    ELSE IF Writing(sink)
         THEN [sink EXCEPT !.accepted = Append(@, event),
                           !.buffer = Append(@, event)]
         ELSE AfterCallback(WriteBegin([sink EXCEPT !.accepted = Append(@, event)],
                                       event))

\* How a request reaches run(): called directly (createAsyncHandler, route
\* with two arguments) or through exec (the Connect middleware).
Vias == {"run", "exec"}

\* ----------------------------------------------------------------- Init
Init ==
    /\ options \in OptionSet
    /\ connectGrip \in BOOLEAN
    /\ awaiting = <<>>
    /\ started = 0
    /\ cur = IdleReq
    /\ conns = <<>>
    /\ listeners = <<DebugListener>>
    /\ published = <<>>
    /\ emitting = <<>>
    /\ emitted = <<>>
    /\ channelWritables = [c \in Channels |-> 0]
    /\ sinks = <<>>
    /\ writes = 0

\* --------------------------------------------------------- handler actions
\* A call of run(req, res, options): its segment up to the await, or all of
\* it when req.grip is already set or the request is refused before. The
\* request is drawn from the given sets.
RunStartOn(Via, Accept, Grips, Ids, Qs) ==
    /\ cur.pc = "idle"
    /\ started < MaxRequests
    /\ started' = started + 1
    /\ \E via \in Via, accept \in Accept, grip \in Grips, lastEventId \in Ids,
          query \in Qs :
          LET r == RunFirst([Request(accept, grip, lastEventId, query)
                               EXCEPT !.eventStream = options, !.via = via],
                            options, connectGrip)
          IN IF r.pc = "await"
             THEN /\ awaiting' = Append(awaiting, [via |-> r.via,
                                                   fnCalls |-> r.fnCalls])
                  /\ UNCHANGED <<options, cur, conns, listeners>>
             ELSE /\ Commit(r)
                  /\ UNCHANGED awaiting
    /\ UNCHANGED <<connectGrip, published, sinkVars,
                   emitVars>>

\* connectGrip.run settled, having set req.grip: run() goes on to its end.
\* What the rest of run() reads of the request is drawn here, where it is read.
RunResumeOn(Grips, Ids, Qs) ==
    /\ cur.pc = "idle"
    /\ \E k \in DOMAIN awaiting :
          /\ awaiting' = SubSeq(awaiting, 1, k - 1)
                            \o SubSeq(awaiting, k + 1, Len(awaiting))
          /\ \E grip \in Grips \ {NoGrip}, lastEventId \in Ids, query \in Qs :
                Commit(RunAfterGrip(
                    [Request(TRUE, grip, lastEventId, query)
                       EXCEPT !.detectRuns = 1, !.log = <<"connectGrip.run">>,
                              !.eventStream = options,
                              !.via = awaiting[k].via,
                              !.fnCalls = awaiting[k].fnCalls],
                    options))
    /\ UNCHANGED <<connectGrip, started, published, sinkVars,
                   emitVars>>

RunStart == RunStartOn(Vias, BOOLEAN, GripFlags \cup {NoGrip}, LastEventIds, Queries)

RunResume == RunResumeOn(GripFlags, LastEventIds, Queries)

\* The requests of the bus specification: those that differ in what reaches
\* the bus (held by the proxy or piped, and the channels).
BusGrips == {[set |-> TRUE, isProxied |-> FALSE, needsSigned |-> FALSE,
              isSigned |-> FALSE],
             [set |-> TRUE, isProxied |-> TRUE, needsSigned |-> TRUE,
              isSigned |-> TRUE]}
BusQueries == {q \in Queries : q.ch = <<>>}

BusRunStart == RunStartOn({"run"}, {TRUE}, BusGrips, {Undefined}, BusQueries)

\* Mutant of ExecSettled: the catch handler calls fn as well.
ExecSettledCatchCalls(r) ==
    LET err == IF r.outcome = "rejected" THEN r.error ELSE Undefined
        r1 == IF r.outcome = "rejected"
              THEN [r EXCEPT !.fnCalls = Append(@, <<err>>)] ELSE r
    IN [r1 EXCEPT !.pc = "then",
                  !.fnCalls = Append(@, IF err # Undefined THEN <<err>> ELSE <<>>)]

\* exec's handlers on the promise of run(): .catch(ex => err = ex), then
\* .then(() => err !== undefined ? fn(err) : fn()). fnCalls takes the
\* argument list of each call of fn.
ExecSettled(r) ==
    LET err == IF r.outcome = "rejected" THEN r.error ELSE Undefined
    IN [r EXCEPT !.pc = "then",
                 !.fnCalls = Append(@, IF err # Undefined THEN <<err>> ELSE <<>>)]

\* The promise of run() has settled for a call made through exec: its
\* handlers run as microtasks, before the event loop takes anything else.
ExecThen ==
    /\ cur.pc = "done" /\ cur.via = "exec"
    /\ cur' = ExecSettled(cur)
    /\ UNCHANGED <<options, connectGrip, awaiting, started, conns, busVars,
                   sinkVars,
                   emitVars>>

\* The segment is over: control is back in the event loop.
Return ==
    /\ \/ cur.pc = "done" /\ cur.via = "run"
       \/ cur.pc = "then"
    /\ cur' = IdleReq
    /\ UNCHANGED <<options, connectGrip, awaiting, started, conns, busVars,
                   sinkVars,
                   emitVars>>

\* -------------------------------------------------------------- the bus
\* The listener an AddressedEventsReadable attached: it keeps the event when
\* the event's channel is one of its own.
Listener(conn, channel, event) ==
    IF Includes(conn.channels, channel)
    THEN [conn EXCEPT !.received = Append(@, event)]
    ELSE conn

\* Mutant of Emit: only the listener attached last is called.
EmitToLast(channel, event) ==
    /\ conns' = [i \in DOMAIN conns |->
                   IF i = listeners[Len(listeners)]
                   THEN Listener(conns[i], channel, event) ELSE conns[i]]
    /\ published' = Append(published,
                           [channel |-> channel, event |-> event,
                            attached |-> Range(listeners) \ {DebugListener}])

\* addressedEvents.emit('addressedEvent', {channel, event}): every listener
\* attached now is called before emit returns.
Emit(channel, event) ==
    /\ conns' = [i \in DOMAIN conns |->
                   IF i \in Range(listeners)
                   THEN Listener(conns[i], channel, event) ELSE conns[i]]
    /\ published' = Append(published,
                           [channel |-> channel, event |-> event,
                            attached |-> Range(listeners) \ {DebugListener}])

\* A producer's publishEvent(event, channel) on the channel publisher.
PublishEvent ==
    /\ cur.pc = "idle"
    /\ Len(published) < MaxPublish
    /\ \E channel \in Channels, event \in Events : Emit(channel, event)
    /\ UNCHANGED <<options, connectGrip, awaiting, started, cur, listeners,
                   sinkVars,
                   emitVars>>

\* ServerSentEventsSerializer: one frame per event record.
Serialize(event) == encodeEvent(event)

\* Mutant of Flow: the pipeline passes over an event when two are waiting.
FlowSkipping ==
    /\ cur.pc = "idle"
    /\ \E i \in DOMAIN conns :
          /\ conns[i].subscribed /\ conns[i].open
          /\ conns[i].sent < Len(conns[i].received)
          /\ LET n == Len(conns[i].received)
             IN conns' = [conns EXCEPT
                   ![i].wire = Append(@, Serialize(conns[i].received[n])),
                   ![i].sent = n]
    /\ UNCHANGED <<options, connectGrip, awaiting, started, cur, busVars,
                   sinkVars,
                   emitVars>>

\* The pipeline moves the next received event into the response.
Flow ==
    /\ cur.pc = "idle"
    /\ \E i \in DOMAIN conns :
          /\ conns[i].subscribed /\ conns[i].open
          /\ conns[i].sent < Len(conns[i].received)
          /\ conns' = [conns EXCEPT
                ![i].wire = Append(@, Serialize(conns[i].received[conns[i].sent + 1])),
                ![i].sent = @ + 1]
    /\ UNCHANGED <<options, connectGrip, awaiting, started, cur, busVars,
                   sinkVars,
                   emitVars>>

\* The response's 'close' (the client went away, or the socket failed):
\* pipe()'s own handler unpipes the serializer from the response, and run()'s
\* handler logs. The AddressedEventsReadable is not destroyed.
OnResponseClose(conn) == [conn EXCEPT !.open = FALSE]

ClientDisconnect ==
    /\ cur.pc = "idle"
    /\ \E i \in DOMAIN conns :
          /\ conns[i].open /\ ~conns[i].ended
          /\ conns' = [conns EXCEPT ![i] = OnResponseClose(conns[i])]
    /\ UNCHANGED <<options, connectGrip, awaiting, started, cur, busVars,
                   sinkVars,
                   emitVars>>

\* ------------------------------------------------- emit, step by step
\* emit() as the event loop sees it when listeners reenter the bus: one
\* frame per emit() call under way, with the listener array it walks, the
\* position in it, the listeners called so far and those removed meanwhile.
Frame(channel, event) ==
    [channel |-> channel, event |-> event, snapshot |-> listeners,
     next |-> 1, called |-> <<>>, removed |-> {}]

Top == emitting[Len(emitting)]

\* The event of the step-by-step emissions: which listeners are called does
\* not depend on the payload.
ReentrantEvents == {[event |-> "x", data |-> <<"y">>]}

\* Mutant of EmitList: emit() walks the live listener array.
EmitListLive(frame, live) == live

\* The array emit() walks: the copy of the listener array taken when emit()
\* was called.
EmitList(frame, live) == frame.snapshot

\* A listener has been called by the innermost emit() and has not returned.
InCallback == emitting # <<>> /\ Top.next > 1

\* addressedEvents.emit('addressedEvent', {channel, event}) is called: by a
\* producer from the event loop, or by a listener during an emission.
EmitBegin ==
    /\ cur.pc = "idle"
    /\ emitting = <<>> \/ InCallback
    /\ Len(emitting) + Len(emitted) < MaxPublish
    /\ \E channel \in Channels, event \in ReentrantEvents :
          emitting' = Append(emitting, Frame(channel, event))
    /\ UNCHANGED <<handlerVars, busVars, emitted, sinkVars>>

\* The innermost emit() calls its next listener.
EmitCallListener ==
    /\ emitting # <<>>
    /\ Top.next <= Len(EmitList(Top, listeners))
    /\ LET l == EmitList(Top, listeners)[Top.next]
       IN /\ emitting' = [emitting EXCEPT ![Len(emitting)].next = @ + 1,
                                         ![Len(emitting)].called = Append(@, l)]
          /\ conns' = IF l = DebugListener THEN conns
                      ELSE [conns EXCEPT ![l] = Listener(@, Top.channel, Top.event)]
    /\ UNCHANGED <<options, connectGrip, awaiting, started, cur, busVars,
                   emitted, sinkVars>>

\* The innermost emit() has called its last listener and returns.
EmitReturn ==
    /\ emitting # <<>>
    /\ Top.next > Len(EmitList(Top, listeners))
    /\ emitted' = Append(emitted, Top)
    /\ emitting' = SubSeq(emitting, 1, Len(emitting) - 1)
    /\ UNCHANGED <<handlerVars, busVars, sinkVars>>

\* A listener, while it is called, detaches a subscription's listener from
\* the bus (removeListener).
RemoveListener ==
    /\ InCallback
    /\ \E k \in DOMAIN listeners :
          /\ listeners[k] # DebugListener
          /\ listeners' = SubSeq(listeners, 1, k - 1)
                             \o SubSeq(listeners, k + 1, Len(listeners))
          /\ emitting' = [j \in DOMAIN emitting |->
                            [emitting[j] EXCEPT !.removed = @ \cup {listeners[k]}]]
    /\ UNCHANGED <<handlerVars, published, emitted, sinkVars>>

\* ------------------------------------------------------------ sink actions
\* getChannelWritable(channel): the sink of the channel, built on first use
\* as new ChannelWritable(this, channel).
GetChannelWritable ==
    /\ \E channel \in Channels :
          /\ channelWritables[channel] = 0
          /\ sinks' = Append(sinks, ChannelWritable("ConnectEventStream"))
          /\ channelWritables' = [channelWritables EXCEPT ![channel] = Len(sinks) + 1]
    /\ UNCHANGED <<handlerVars, busVars, writes,
                   emitVars>>

\* new ChannelWritable(channelPublisher) on a ChannelPublisher.
NewChannelWritable ==
    /\ \A s \in DOMAIN sinks : sinks[s].channelPublisher # "ChannelPublisher"
    /\ sinks' = Append(sinks, ChannelWritable("ChannelPublisher"))
    /\ UNCHANGED <<handlerVars, busVars, channelWritables, writes,
                   emitVars>>

\* The publishEvent calls a step started, each an emission on the bus: the
\* sink passes the event alone, so the channel is undefined.
StartsPublish(before, after) ==
    /\ Len(after.wr) > Len(before.wr)
    /\ after.wr[Len(after.wr)].pub = "pending"

SinkStep(s, after) ==
    /\ sinks' = [sinks EXCEPT ![s] = after]
    /\ IF StartsPublish(sinks[s], after)
       THEN Emit(Undefined, after.wr[Len(after.wr)].event)
       ELSE UNCHANGED <<conns, published>>
    /\ UNCHANGED <<options, connectGrip, awaiting, started, cur, listeners,
                   channelWritables, emitVars>>

\* A producer writes an event record to a sink.
Write ==
    /\ writes < MaxWrites
    /\ writes' = writes + 1
    /\ \E s \in DOMAIN sinks, event \in Events :
          SinkStep(s, WritableWrite(sinks[s], event))

\* The promise of a pending publishEvent settles: the proxy acknowledged, or
\* the delivery failed with some value.
PublishSettles ==
    /\ \E s \in DOMAIN sinks :
          /\ sinks[s].wr # <<>>
          /\ sinks[s].wr[Len(sinks[s].wr)].pub = "pending"
          /\ \/ SinkStep(s, [sinks[s] EXCEPT !.wr[Len(sinks[s].wr)].pub = "resolved"])
             \/ \E v \in ThrownValues :
                  SinkStep(s, [sinks[s] EXCEPT !.wr[Len(sinks[s].wr)].pub = "rejected",
                                               !.wr[Len(sinks[s].wr)].cause = v])
    /\ UNCHANGED writes

\* _write goes on after its await and calls the callback; the Writable then
\* starts the next buffered write or is destroyed.
WriteResume ==
    /\ \E s \in DOMAIN sinks :
          /\ sinks[s].wr # <<>>
          /\ sinks[s].wr[Len(sinks[s].wr)].pub \in {"resolved", "rejected"}
          /\ sinks[s].wr[Len(sinks[s].wr)].cbs = <<>>
          /\ SinkStep(s, AfterCallback(
                [sinks[s] EXCEPT !.wr[Len(sinks[s].wr)] = WriteAfterAwait(@)]))
    /\ UNCHANGED writes

\* The connection handler: every request, one after the other or suspended
\* together at the proxy detection.
Next ==
    \/ RunStart
    \/ RunResume
    \/ ExecThen
    \/ Return
    \/ ClientDisconnect

Spec == Init /\ [][Next]_vars

\* The bus with its publishers and its direct-mode subscriptions.
NextBus ==
    \/ BusRunStart
    \/ Return
    \/ PublishEvent
    \/ Flow
    \/ ClientDisconnect

\* A handler built with a GRIP configuration, reading its channels from the
\* query or from its configuration.
BusOptionSet == {Opt(TRUE, <<>>, Undefined), Opt(TRUE, <<"a", "a">>, JsFalse)}

InitBus == Init /\ connectGrip /\ options \in BusOptionSet

SpecBus == InitBus /\ [][NextBus]_vars

\* The publish sinks and the channel publisher behind them.
NextSink ==
    \/ GetChannelWritable
    \/ NewChannelWritable
    \/ Write
    \/ PublishSettles
    \/ WriteResume

\* The sinks read neither the handler's options nor its GRIP configuration.
InitSink == Init /\ connectGrip /\ options = Opt(FALSE, <<>>, Undefined)

SpecSink == InitSink /\ [][NextSink]_vars

\* The direct-mode requests with a channel: those that attach a listener.
DirectRunStart ==
    RunStartOn({"run"}, {TRUE}, {g \in BusGrips : ~g.isProxied}, {Undefined},
               {q \in BusQueries : q.channel # <<>>})

\* The direct-mode connections alone, from the bus to the wire.
NextPipe ==
    \/ DirectRunStart
    \/ Return
    \/ PublishEvent
    \/ Flow
    \/ ClientDisconnect

InitPipe == Init /\ connectGrip /\ options = Opt(TRUE, <<>>, Undefined)

SpecPipe == InitPipe /\ [][NextPipe]_vars

\* The requests that pass every check, held by the proxy or piped.
HoldRunStart ==
    RunStartOn({"run"}, {TRUE}, BusGrips, {Undefined},
               {q \in BusQueries : q.channel # <<>>})

\* Proxy holds next to direct-mode connections, with events published on
\* the local bus.
NextHold ==
    \/ HoldRunStart
    \/ Return
    \/ PublishEvent
    \/ Flow

SpecHold == InitPipe /\ [][NextHold]_vars

\* The bus with listeners that publish or unsubscribe while they are called.
\* A request is handled between emissions only: emit() is synchronous.
NextReentrant ==
    \/ emitting = <<>> /\ DirectRunStart
    \/ Return
    \/ EmitBegin
    \/ EmitCallListener
    \/ EmitReturn
    \/ RemoveListener

InitReentrant == Init /\ connectGrip /\ options = Opt(TRUE, <<>>, Undefined)

SpecReentrant == InitReentrant /\ [][NextReentrant]_vars

\* ================================================================ claims
\* The events connection i is due: those of the emissions made while its
\* listener was attached, on a channel of its list, in emission order.
Due(log, i) ==
    LET channels == Range(conns[i].channels)
        mine(p) == i \in p.attached /\ p.channel \in channels
        due == SelectSeq(log, mine)
    IN [k \in DOMAIN due |-> due[k].event]

\* C1: an event published to channel C reaches every subscription attached
\* at that time whose channels contain C exactly once, each subscription sees
\* the events in publish order, and a subscription without C gets nothing.
C1_DeliveryInPublishOrder ==
    \A i \in DOMAIN conns : conns[i].received = Due(published, i)

C1_Witness ==
    \E i, j \in DOMAIN conns :
        /\ conns[i].subscribed /\ conns[j].subscribed
        /\ Len(published) = 2 /\ published[1].attached = {i, j}
        /\ Len(conns[i].received) = 2
        /\ conns[i].received[1] # conns[i].received[2]
        /\ Len(conns[j].received) = 1

C3_ListenersRestored ==
    (/\ cur.pc = "idle"
     /\ \A i \in DOMAIN conns : conns[i].subscribed => ~conns[i].open)
    => Len(listeners) = 1

\* C4: a proxied request that needs a signature and has none is answered
\* with status 403, without stream-open frame, hold or subscription.
C4_UnsignedIs403 ==
    (cur.pc = "done" /\ cur.accept /\ cur.grip.set /\ SignatureMissing(cur))
    => /\ cur.resStatusCode = 403
       /\ cur.ended = 1
       /\ cur.wire = <<>>
       /\ ~cur.hold.set
       /\ ~cur.subscribed

\* C5: a request whose Accept header lacks text/event-stream is answered
\* with status 406 and nothing else happens: no proxy detection, no channel
\* resolution, no stream-open frame, no listener on the bus.
C5_NotAcceptableIs406 ==
    (cur.pc = "done" /\ ~cur.accept)
    => /\ cur.resStatusCode = 406
       /\ cur.ended = 1
       /\ cur.detectRuns = 0
       /\ ~cur.resolved
       /\ cur.wire = <<>>
       /\ ~cur.hold.set
       /\ ~cur.subscribed
       /\ cur.outcome = "resolved"

C5_Witness ==
    /\ cur.pc = "done" /\ ~cur.accept /\ cur.resStatusCode = 406
    /\ cur.grip.set /\ ~cur.grip.isProxied
    /\ options.channels # <<>> /\ cur.lastEventId = Undefined

\* C6: with query-sourcing enabled and no channel resolved, the answer is
\* status 400 and its message names the query parameter that was read.
C6_MessageNamesParameter ==
    (/\ cur.pc = "done" /\ cur.resolved /\ cur.channels = <<>>
     /\ ReadChannelsFromQuery(options) # JsFalse)
    => /\ cur.resStatusCode = 400
       /\ cur.ended = 1
       /\ Len(cur.endText) >= 3
       /\ cur.endText[3] = ChannelParamName(options)

\* C7: an acceptable request that passes the signature check and carries
\* the resume header value 'error' is answered with status 400 before any
\* channel is resolved, whatever channels are configured or in the query:
\* no stream-open frame, no subscription, no hold.
C7_ResumeErrorIs400 ==
    (/\ cur.pc = "done" /\ cur.accept /\ cur.grip.set
     /\ ~SignatureMissing(cur) /\ cur.lastEventId = "error")
    => /\ cur.resStatusCode = 400
       /\ cur.ended = 1
       /\ ~cur.resolved
       /\ cur.channels = <<>>
       /\ cur.wire = <<>>
       /\ ~cur.hold.set
       /\ ~cur.subscribed

C7_Witness ==
    /\ cur.pc = "done" /\ cur.accept /\ cur.grip.set
    /\ ~SignatureMissing(cur) /\ cur.lastEventId = "error"
    /\ cur.resStatusCode = 400
    /\ options.channels # <<>> /\ cur.query.channel # <<>>

\* C8: an event record written to the sink of getChannelWritable(C) is
\* handed to the channel publisher addressed to channel C, and the write
\* completes without error when the publish succeeds.
C8_SinkPublishesToItsChannel ==
    \A c \in Channels :
        channelWritables[c] # 0 =>
            \A k \in DOMAIN sinks[channelWritables[c]].wr :
                LET w == sinks[channelWritables[c]].wr[k]
                IN w.cbs # <<>> =>
                     /\ \E n \in DOMAIN published :
                           /\ published[n].channel = c
                           /\ published[n].event = w.event
                     /\ w.cbs[1] = NoValue

\* C9: the callback of a write is called exactly once and only after its
\* publishEvent call has settled: never while it is pending, never twice, and
\* the next write starts only after it.
C9_CallbackOnceAfterSettled ==
    \A s \in DOMAIN sinks : \A k \in DOMAIN sinks[s].wr :
        LET w == sinks[s].wr[k]
        IN /\ Len(w.cbs) <= 1
           /\ (w.pub = "pending") => (w.cbs = <<>>)
           /\ (k < Len(sinks[s].wr)) => (Len(w.cbs) = 1)

C9_Witness ==
    \E s \in DOMAIN sinks :
        /\ Len(sinks[s].wr) = 2
        /\ sinks[s].wr[1].pub = "resolved" /\ Len(sinks[s].wr[1].cbs) = 1
        /\ sinks[s].wr[2].pub = "pending" /\ sinks[s].wr[2].cbs = <<>>

WrittenEvents(sink) == [k \in DOMAIN sink.wr |-> sink.wr[k].event]

Outstanding(sink) == {k \in DOMAIN sink.wr : sink.wr[k].cbs = <<>>}

\* C10 as stated: at most one publishEvent is outstanding per sink, the
\* calls are issued in write order, and the sink holds no event record
\* besides the one being published.
C10_NoQueuedRecords ==
    \A s \in DOMAIN sinks :
        /\ Cardinality(Outstanding(sinks[s])) <= 1
        /\ WrittenEvents(sinks[s])
             = SubSeq(sinks[s].accepted, 1, Len(sinks[s].wr))
        /\ sinks[s].buffer = <<>>

\* C10 amended: at most one publishEvent is outstanding per sink and the
\* calls are issued in write order; the records written while a publish is
\* stalled wait in the sink's buffer, in write order, and are dropped when
\* the publish fails.
C10_OneOutstandingInOrder ==
    \A s \in DOMAIN sinks :
        /\ Cardinality(Outstanding(sinks[s])) <= 1
        /\ WrittenEvents(sinks[s])
             = SubSeq(sinks[s].accepted, 1, Len(sinks[s].wr))
        /\ ~sinks[s].errored =>
             WrittenEvents(sinks[s]) \o sinks[s].buffer = sinks[s].accepted
        /\ sinks[s].buffer # <<>> => Outstanding(sinks[s]) # {}

C10_Witness ==
    \E s \in DOMAIN sinks :
        /\ sinks[s].wr # <<>>
        /\ sinks[s].wr[Len(sinks[s].wr)].pub = "pending"
        /\ Len(sinks[s].buffer) = 2

\* The request passes every check of run(): it is accepted.
PassesChecks(r) ==
    /\ r.accept /\ r.grip.set /\ ~SignatureMissing(r)
    /\ r.lastEventId # "error"
    /\ ResolveChannels(options, r.query) # <<>>

\* The request fails one of the checks of run().
FailsACheck(r) ==
    \/ ~r.accept
    \/ r.grip.set /\ ~PassesChecks(r)

\* The stream-open event lines among the chunks written to a response.
StreamOpenLines(wire) ==
    {<<k, n>> \in (DOMAIN wire) \X (1..3) :
        n <= Len(wire[k]) /\ wire[k][n] = Line("event", "stream-open")}

\* C11: every accepted request gets status 200 and exactly one stream-open
\* frame, in proxy-hold and in direct mode; a rejected request gets none.
C11_OneStreamOpenFrame ==
    cur.pc = "done" =>
       /\ PassesChecks(cur) =>
            /\ cur.resStatusCode = 200
            /\ cur.wire = <<encodeEvent(StreamOpenEvent)>>
            /\ Cardinality(StreamOpenLines(cur.wire)) = 1
       /\ FailsACheck(cur) => cur.wire = <<>>

C11_Witness ==
    /\ cur.pc = "done" /\ PassesChecks(cur) /\ cur.grip.isProxied
    /\ cur.detectRuns = 1
    /\ Cardinality(StreamOpenLines(cur.wire)) = 1

\* The query values not yet seen, in first-seen order.
RECURSIVE FirstSeen(_, _)
FirstSeen(values, seen) ==
    IF values = <<>> THEN <<>>
    ELSE IF Head(values) \in seen THEN FirstSeen(Tail(values), seen)
         ELSE <<Head(values)>> \o FirstSeen(Tail(values), seen \cup {Head(values)})

NoDuplicates(list) ==
    \A i, j \in DOMAIN list : list[i] = list[j] => i = j

ConfiguredChannels == IF options.defined THEN options.channels ELSE <<>>

\* C12: the resolved channels are the configured ones followed, when none is
\* configured or query-sourcing is requested, by the query values not already
\* present, in first-seen order; the list handed to the subscription or the
\* hold has no duplicate.
C12_ResolvedChannelsNoDuplicate ==
    (cur.pc = "done" /\ cur.resolved) =>
       /\ cur.channels =
            ConfiguredChannels \o
              (IF ConfiguredChannels = <<>> \/ ReadChannelsFromQuery(options) # JsFalse
               THEN FirstSeen(cur.query[ChannelParamName(options)],
                              Range(ConfiguredChannels))
               ELSE <<>>)
       /\ cur.hold.set => NoDuplicates(cur.hold.channels)
       /\ cur.subscribed => NoDuplicates(cur.channels)

\* C15: run() never rejects: every request ends in a terminal answer or in
\* an accepted handshake, also on a handler built without GRIP configuration.
C15_RunNeverRejects ==
    cur.pc = "done" => cur.outcome = "resolved"

\* Where a side effect stands in the order of a request's side effects
\* (0: it did not happen).
RECURSIVE IndexFrom(_, _, _)
IndexFrom(log, x, k) ==
    IF k > Len(log) THEN 0
    ELSE IF log[k] = x THEN k ELSE IndexFrom(log, x, k + 1)

IndexOf(log, x) == IndexFrom(log, x, 1)

LastIndexOf(log, x) ==
    IF \E k \in DOMAIN log : log[k] = x
    THEN CHOOSE k \in DOMAIN log :
            log[k] = x /\ \A m \in DOMAIN log : log[m] = x => m <= k
    ELSE 0

\* C16 as stated: the stream-open frame is written before the hold
\* directive is issued (proxy mode) and before the chunked-delivery headers
\* are set (direct mode).
C16_FrameBeforeBranch ==
    (cur.pc = "done" /\ PassesChecks(cur)) =>
       /\ cur.grip.isProxied =>
            IndexOf(cur.log, "write") < IndexOf(cur.log, "startInstruct")
       /\ ~cur.grip.isProxied =>
            IndexOf(cur.log, "write") < IndexOf(cur.log, "setHeader")

\* C16 amended: status 200 is set first; the hold directive (proxy mode) or
\* the chunked-delivery headers (direct mode) come before the stream-open
\* frame is written; the frame is written before the response is ended
\* (proxy mode) or piped to (direct mode).
C16_BranchSetupBeforeFrame ==
    (cur.pc = "done" /\ PassesChecks(cur)) =>
       /\ IndexOf(cur.log, "statusCode") > 0
       /\ IndexOf(cur.log, "write") > 0
       /\ cur.grip.isProxied =>
            /\ IndexOf(cur.log, "statusCode") < IndexOf(cur.log, "startInstruct")
            /\ IndexOf(cur.log, "startInstruct") < IndexOf(cur.log, "setHoldStream")
            /\ IndexOf(cur.log, "setHoldStream") < IndexOf(cur.log, "addChannel")
            /\ IndexOf(cur.log, "addChannel") < IndexOf(cur.log, "setKeepAlive")
            /\ IndexOf(cur.log, "setKeepAlive") < IndexOf(cur.log, "write")
            /\ IndexOf(cur.log, "write") < IndexOf(cur.log, "end")
       /\ ~cur.grip.isProxied =>
            /\ IndexOf(cur.log, "statusCode") < IndexOf(cur.log, "setHeader")
            /\ LastIndexOf(cur.log, "setHeader") < IndexOf(cur.log, "write")
            /\ IndexOf(cur.log, "write") < IndexOf(cur.log, "pipe")

C16_Witness ==
    /\ cur.pc = "done" /\ PassesChecks(cur) /\ ~cur.grip.isProxied
    /\ Cardinality(cur.headers) = 2
    /\ IndexOf(cur.log, "write") = 4

\* The status of the earliest check a request fails, 200 when it fails none.
ExpectedStatus(r) ==
    IF ~r.accept THEN 406
    ELSE IF SignatureMissing(r) THEN 403
    ELSE IF r.lastEventId = "error" THEN 400
    ELSE IF ResolveChannels(options, r.query) = <<>> THEN 400
    ELSE 200

\* C17: a request failing several checks gets the answer of the earliest
\* one in the order 406, 403, 400 (resume header), 400 (no channels); its
\* response is ended exactly once and nothing of a later state happens.
C17_EarliestRejectionWins ==
    (cur.pc = "done" /\ FailsACheck(cur)) =>
       /\ cur.resStatusCode = ExpectedStatus(cur)
       /\ cur.ended = 1
       /\ cur.wire = <<>> /\ ~cur.hold.set /\ ~cur.subscribed
       /\ ~cur.accept => cur.detectRuns = 0
       /\ (~cur.accept \/ SignatureMissing(cur) \/ cur.lastEventId = "error")
            => ~cur.resolved

Count(log, x) == Cardinality({k \in DOMAIN log : log[k] = x})

\* The frames of the handshake, of the hold's heartbeat and of each event.
StreamOpenFrame == encodeEvent(StreamOpenEvent)
KeepAliveFrame == encodeEvent(KeepAliveEvent)
EventFrame == [e \in Events |-> encodeEvent(e)]

\* C13: an accepted proxied request gets one hold directive bound to the
\* resolved channels with the keep-alive frame at the fixed interval; the
\* response is ended right after the stream-open frame, nothing is written
\* afterwards, no chunked-delivery header is set, no subscription is attached
\* to the bus, and events published later never reach that response.
C13_ProxyHoldEndsLocalResponse ==
    /\ (cur.pc = "done" /\ PassesChecks(cur) /\ cur.grip.isProxied) =>
          /\ Count(cur.log, "startInstruct") = 1
          /\ cur.hold = [set |-> TRUE, holdStream |-> TRUE,
                         channels |-> cur.channels,
                         keepAlive |-> KeepAliveFrame,
                         timeout |-> KEEP_ALIVE_TIMEOUT]
          /\ cur.wire = <<StreamOpenFrame>>
          /\ cur.ended = 1
          /\ cur.log[Len(cur.log)] = "end"
          /\ cur.log[Len(cur.log) - 1] = "write"
          /\ cur.headers = {}
          /\ ~cur.subscribed
    /\ \A i \in DOMAIN conns : conns[i].held =>
          /\ conns[i].ended /\ ~conns[i].subscribed
          /\ i \notin Range(listeners)
          /\ conns[i].received = <<>>
          /\ conns[i].wire = <<StreamOpenFrame>>

C13_Witness ==
    /\ cur.pc = "idle"
    /\ \E i, j \in DOMAIN conns :
          /\ i < j /\ conns[i].held /\ conns[j].subscribed
          /\ \E k \in DOMAIN published :
                /\ published[k].attached = {j}
                /\ Includes(conns[i].channels, published[k].channel)
                /\ conns[j].sent > 0

\* C14: on a direct-mode connection the stream-open frame comes first; the
\* events published afterwards on its channels follow it, one wire frame
\* each, in publish order with none left out or merged; events published
\* before the subscription was attached never appear; the handler does not
\* end the response.
C14_DirectPipeFramesInOrder ==
    \A i \in DOMAIN conns : (conns[i].subscribed /\ ~conns[i].held) =>
        LET due == Due(published, i)
        IN /\ conns[i].received = due
           /\ conns[i].sent <= Len(due)
           /\ Len(conns[i].wire) = conns[i].sent + 1
           /\ conns[i].wire[1] = StreamOpenFrame
           /\ \A k \in 1..conns[i].sent :
                 conns[i].wire[k + 1] = EventFrame[due[k]]
           /\ ~conns[i].ended

C14_Witness ==
    \E i \in DOMAIN conns :
        /\ conns[i].subscribed /\ conns[i].open
        /\ Len(published) = 2
        /\ i \notin published[1].attached
        /\ Includes(conns[i].channels, published[1].channel)
        /\ i \in published[2].attached
        /\ conns[i].sent = 1
        /\ conns[i].wire = <<StreamOpenFrame,
                             EventFrame[published[2].event]>>

\* C19: handling a request leaves the configured options.channels as it
\* was, and the channels a request resolves to come from the configured list
\* and from its own query only, never from the query of an earlier request.
C19_ConfiguredChannelsUnchanged ==
    [][ /\ options' = options
        /\ (cur'.pc = "done" /\ cur'.resolved) =>
              Range(cur'.channels) \subseteq
                  Range(ConfiguredChannels)
                    \cup Range(cur'.query[ChannelParamName(options)]) ]_vars

C19_Witness ==
    /\ started = 2 /\ Len(conns) = 2
    /\ options.defined /\ options.channels = <<"a">>
    /\ conns[1].channels = <<"a", "b">>
    /\ cur.pc = "done" /\ cur.resolved /\ cur.query.channel = <<"a">>
    /\ conns[2].channels = <<"a">>

\* C20: exec calls the continuation fn exactly once per request and only
\* after run() has settled: with the rejection reason when run() rejected,
\* with no argument when it resolved, whether the response was ended (406,
\* 403, 400, proxy hold) or left streaming.
C20_FnOnceAfterSettled ==
    /\ [](/\ \A k \in DOMAIN awaiting : awaiting[k].fnCalls = <<>>
          /\ (cur.pc \in {"idle", "done"} \/ cur.via = "run") => cur.fnCalls = <<>>
          /\ cur.pc = "then" =>
                /\ cur.via = "exec"
                /\ cur.fnCalls = << IF cur.outcome = "rejected"
                                    THEN <<cur.error>> ELSE <<>> >>)
    /\ [][ (cur.via = "exec" /\ cur.pc # "idle" /\ cur'.pc = "idle") =>
              Len(cur.fnCalls) = 1 ]_vars

C20_Witness ==
    /\ cur.pc = "then" /\ cur.via = "exec"
    /\ cur.detectRuns = 1 /\ cur.subscribed /\ cur.ended = 0
    /\ cur.fnCalls = << <<>> >>
    /\ \E k \in DOMAIN awaiting : awaiting[k].via = "exec"

CountIn(seq, x) == Cardinality({k \in DOMAIN seq : seq[k] = x})

\* The listener calls made so far for subscription i on one of its channels.
CallsFor(i) ==
    LET all == emitted \o emitting
    IN {<<m, k>> \in (DOMAIN all) \X (1..(MaxRequests + 1)) :
           /\ k <= Len(all[m].called)
           /\ all[m].called[k] = i
           /\ Includes(conns[i].channels, all[m].channel)}

\* C18: when a listener called during an emission unsubscribes a listener or
\* publishes another event, every other listener attached when the emission
\* began is still called exactly once for it, no listener is called twice,
\* none that was not attached then is called, and the listener list keeps
\* each listener once.
C18_EmitReentrancySafe ==
    /\ \A m \in DOMAIN emitted :
          \A l \in Range(emitted[m].snapshot) :
              l \notin emitted[m].removed => CountIn(emitted[m].called, l) = 1
    /\ \A m \in DOMAIN (emitted \o emitting) :
          LET e == (emitted \o emitting)[m]
          IN /\ Range(e.called) \subseteq Range(e.snapshot)
             /\ \A l \in Range(e.snapshot) : CountIn(e.called, l) <= 1
    /\ \A i \in DOMAIN conns : Len(conns[i].received) = Cardinality(CallsFor(i))
    /\ NoDuplicates(listeners)

C18_Witness ==
    /\ Len(emitted) = 2 /\ emitting = <<>>
    /\ Len(emitted[2].snapshot) = 3
    /\ emitted[2].called = emitted[2].snapshot
    /\ \E x, y \in DOMAIN conns :
          /\ y < x
          /\ emitted[2].removed = {y}
          /\ emitted[1].snapshot = <<DebugListener, x>>
          /\ emitted[1].called = emitted[1].snapshot
          /\ Len(conns[x].received) = 2

====
